---- MODULE Spec2Model ----
(***************************************************************************)
(* StackAllocator<N, alignment> of C_C++/StackAllocator.h: a fixed-size    *)
(* inline buffer and one cursor ("pointer") into it.  Pointers are machine *)
(* addresses of W bits and std::size_t is the W-bit unsigned type, so the  *)
(* alignment arithmetic wraps around modulo 2^W as it does in the code.    *)
(***************************************************************************)
EXTENDS Integers, Naturals, Sequences, FiniteSets, TLC

\* ------------------------------------------------------------------ bounds
\* width in bits of std::size_t and of an address
W == 3
\* largest capacity N instantiated
MaxN == 3
\* alignments instantiated are 2^0 .. 2^MaxAlignLog
MaxAlignLog == 2
\* successful allocations remembered for the allocation-only history
MaxAllocs == 3
\* allocations a client holds at one time
MaxLive == 3

Word == 2 ^ W

\* the null pointer
nullptr == 0

VARIABLES
    N,          \* template parameter: capacity in bytes
    alignment,  \* template parameter: arena alignment
    buffer,     \* address of buffer[0]
    pointer,    \* the cursor, an address
    op,         \* the last call made on the arena: arguments, result, cursor before it
    prev,       \* TRUE when the call made before the last one was reset
    fresh,      \* TRUE while nothing but allocate has been called since construction
    allocs,     \* while fresh: the regions handed out so far, in order
    mark,       \* the marker last taken, while only allocate calls followed it
    lifo,       \* progress of an allocate(n) / deallocate(p, n) / allocate(n) round trip
    pair,       \* progress of an allocate(n1) / allocate(n2) / deallocate(p1, n1) sequence
    live,       \* the allocations a client holds: handed out and not handed back
    th          \* the threads that share the arena, each inside or outside allocate

arena == <<N, alignment, buffer, pointer>>
vars == <<N, alignment, buffer, pointer, op, prev, fresh, allocs, mark, lifo, pair,
          live, th>>

\* ------------------------------------------------------- machine arithmetic
\* conversion to the W-bit unsigned type
ToWord(x) == x % Word

RECURSIVE BitAnd(_, _, _)
\* x & y on k-bit operands
BitAnd(x, y, k) ==
    IF k = 0 THEN 0
    ELSE (x % 2) * (y % 2) + 2 * BitAnd(x \div 2, y \div 2, k - 1)

\* ~x on a W-bit operand
BitNot(x) == (Word - 1) - x

\* ------------------------------------------------------- private helpers
\* (n + (alignment - 1)) & ~(alignment - 1)
align_up(n) == BitAnd(ToWord(n + (alignment - 1)), BitNot(alignment - 1), W)

isAligned_always(p) == TRUE

\* ((uintptr_t) p & (alignment - 1)) == 0
isAligned(p) == BitAnd(p, alignment - 1, W) = 0

pointer_in_buffer_below(p) == buffer <= p

pointer_in_buffer_above(p) == p <= buffer + N

\* buffer <= p && p <= buffer + N
pointer_in_buffer(p) == buffer <= p /\ p <= buffer + N

\* static_cast<std::size_t>(pointer - buffer)
used == ToWord(pointer - buffer)

\* N
size == N

\* ------------------------------------------------------- call records
NoCall == [name |-> "new", p |-> nullptr, n |-> 0, r |-> nullptr, before |-> 0, diag |-> FALSE]

Call(name, p, n, r, diag) ==
    [name |-> name, p |-> p, n |-> n, r |-> r, before |-> used, diag |-> diag]

NoMark == [stage |-> 0, m |-> nullptr, used |-> 0]
NoLifo == [stage |-> 0, n |-> 0, p |-> nullptr, used |-> 0, back |-> 0]
NoPair == [stage |-> 0, n1 |-> 0, p1 |-> nullptr, n2 |-> 0, p2 |-> nullptr]
NoThreads == <<>>

\* ------------------------------------------------------- inputs
Sizes == 0 .. Word - 1

\* addresses handed to deallocate and resetToMarker: the null pointer, every
\* address of the buffer and its end, and addresses on either side of it
Pointers == {q \in {nullptr, buffer - 1, buffer + N + 1, Word - 1} : q \in 0 .. Word - 1}
            \cup (buffer .. buffer + N)

Alignments == {2 ^ k : k \in 0 .. MaxAlignLog}

\* where the buffer can lie: an aligned, non-null address with the whole
\* array and its end address inside the address space
Bases(cap, al) == {b \in 1 .. Word - 1 : b % al = 0 /\ b + cap < Word}

\* the placements explored: the lowest and the highest of them
Placements(cap, al) ==
    {b \in Bases(cap, al) : \/ \A c \in Bases(cap, al) : b <= c
                            \/ \A c \in Bases(cap, al) : b >= c}

\* ------------------------------------------------------- construction
Init ==
    /\ N \in 1 .. MaxN
    /\ alignment \in Alignments
    /\ buffer \in Placements(N, alignment)
    /\ pointer = buffer
    /\ op = NoCall
    /\ prev = FALSE
    /\ fresh = TRUE
    /\ allocs = <<>>
    /\ mark = NoMark
    /\ lifo = NoLifo
    /\ pair = NoPair
    /\ live = <<>>
    /\ th = NoThreads

\* ------------------------------------------------------- allocate
allocate_fits_capacity(aligned_n) == N >= aligned_n

allocate_fits_strict(aligned_n) == ToWord(buffer - pointer + N) > aligned_n

\* static_cast<decltype(aligned_n)>(buffer - pointer + N) >= aligned_n
allocate_fits(aligned_n) == ToWord(buffer - pointer + N) >= aligned_n

\* the pointer allocate(n) returns
allocate_result(n) == IF allocate_fits(align_up(n)) THEN pointer ELSE nullptr

allocate_cursor_always(n) == ToWord(pointer + align_up(n))

allocate_cursor_stay(n) == pointer

allocate_cursor_unpadded(n) ==
    IF allocate_fits(align_up(n)) THEN ToWord(pointer + n) ELSE pointer

\* the cursor allocate(n) leaves
allocate_cursor(n) ==
    IF allocate_fits(align_up(n)) THEN ToWord(pointer + align_up(n)) ELSE pointer

allocate(n) ==
    /\ pointer' = allocate_cursor(n)
    /\ op' = Call("allocate", nullptr, n, allocate_result(n), FALSE)
    /\ UNCHANGED <<N, alignment, buffer>>

\* what the histories keep of a call of allocate(n)
allocate_seen(n) ==
    LET r == allocate_result(n)
        ok == r # nullptr
        len == align_up(n)
        room == Len(allocs) < MaxAllocs
    IN  /\ prev' = (op.name = "reset")
        /\ fresh' = (fresh /\ (room \/ ~ok))
        /\ allocs' = IF ~fresh' THEN <<>>
                      ELSE IF ok THEN Append(allocs, [p |-> r, len |-> len])
                      ELSE allocs
        /\ mark' = IF mark.stage = 1 THEN mark ELSE NoMark
        /\ lifo' = IF lifo.stage = 2 /\ n = lifo.n
                    THEN [lifo EXCEPT !.stage = 3]
                    ELSE [stage |-> 1, n |-> n, p |-> r, used |-> used, back |-> 0]
        /\ pair' = IF ~ok THEN NoPair
                    ELSE IF pair.stage \in {1, 2}
                    THEN [stage |-> 2,
                          n1 |-> IF pair.stage = 1 THEN pair.n1 ELSE pair.n2,
                          p1 |-> IF pair.stage = 1 THEN pair.p1 ELSE pair.p2,
                          n2 |-> n, p2 |-> r]
                    ELSE [stage |-> 1, n1 |-> n, p1 |-> r, n2 |-> 0, p2 |-> nullptr]
        /\ UNCHANGED <<live, th>>

Allocate == \E n \in Sizes : allocate(n) /\ allocate_seen(n)

\* ------------------------------------------------------- deallocate
deallocate_top_any(p, n) == pointer_in_buffer(p)

deallocate_top_unpadded(p, n) == pointer_in_buffer(p) /\ ToWord(p + n) = pointer

\* pointer_in_buffer(p) and then p + align_up(n) == pointer
deallocate_top(p, n) == pointer_in_buffer(p) /\ ToWord(p + align_up(n)) = pointer

deallocate(p, n) ==
    /\ pointer' = IF deallocate_top(p, n) THEN p ELSE pointer
    /\ op' = Call("deallocate", p, n, nullptr, FALSE)
    /\ UNCHANGED <<N, alignment, buffer>>

deallocate_seen(p, n) ==
    /\ prev' = (op.name = "reset")
    /\ fresh' = FALSE
    /\ allocs' = <<>>
    /\ mark' = NoMark
    /\ lifo' = IF lifo.stage = 1 /\ p = lifo.p /\ n = lifo.n
                THEN [lifo EXCEPT !.stage = 2, !.back = ToWord(pointer' - buffer)]
                ELSE NoLifo
    /\ pair' = IF pair.stage = 2 /\ p = pair.p1 /\ n = pair.n1
                THEN [pair EXCEPT !.stage = 3]
                ELSE IF /\ pair.stage = 2
                        /\ p = pair.p1
                        /\ n = align_up(pair.n1) + align_up(pair.n2)
                THEN [pair EXCEPT !.stage = 4]
                ELSE NoPair
    /\ UNCHANGED <<live, th>>

Deallocate == \E p \in Pointers, n \in Sizes : deallocate(p, n) /\ deallocate_seen(p, n)

\* ------------------------------------------------------- getCurrentMarker
getCurrentMarker ==
    /\ op' = Call("getCurrentMarker", nullptr, 0, pointer, FALSE)
    /\ UNCHANGED <<N, alignment, buffer, pointer>>

GetCurrentMarker ==
    /\ getCurrentMarker
    /\ prev' = (op.name = "reset")
    /\ fresh' = FALSE
    /\ allocs' = <<>>
    /\ mark' = [stage |-> 1, m |-> op'.r, used |-> used]
    /\ lifo' = NoLifo
    /\ pair' = NoPair
    /\ UNCHANGED <<live, th>>

\* ------------------------------------------------------- reset
reset_keep ==
    /\ pointer' = pointer
    /\ op' = Call("reset", nullptr, 0, nullptr, FALSE)
    /\ UNCHANGED <<N, alignment, buffer>>

reset ==
    /\ pointer' = buffer
    /\ op' = Call("reset", nullptr, 0, nullptr, FALSE)
    /\ UNCHANGED <<N, alignment, buffer>>

Reset ==
    /\ reset
    /\ prev' = (op.name = "reset")
    /\ fresh' = FALSE
    /\ allocs' = <<>>
    /\ mark' = NoMark
    /\ lifo' = NoLifo
    /\ pair' = NoPair
    /\ UNCHANGED <<live, th>>

\* ------------------------------------------------------- resetToMarker
resetToMarker_inverted(p) == pointer_in_buffer(p) /\ ~isAligned(p)

resetToMarker_inrange(p) == pointer_in_buffer(p)

resetToMarker_anywhere(p) == isAligned(p)

\* pointer_in_buffer(p) && isAligned(p)
resetToMarker_valid(p) == pointer_in_buffer(p) /\ isAligned(p)

\* the message is written after the if statement, on every path
resetToMarker(p) ==
    /\ pointer' = IF resetToMarker_valid(p) THEN p ELSE pointer
    /\ op' = Call("resetToMarker", p, 0, nullptr, TRUE)
    /\ UNCHANGED <<N, alignment, buffer>>

resetToMarker_seen(p) ==
    /\ prev' = (op.name = "reset")
    /\ fresh' = FALSE
    /\ allocs' = <<>>
    /\ mark' = IF mark.stage = 1 /\ p = mark.m THEN [mark EXCEPT !.stage = 2] ELSE NoMark
    /\ lifo' = NoLifo
    /\ pair' = NoPair
    /\ UNCHANGED <<live, th>>

ResetToMarker == \E p \in Pointers : resetToMarker(p) /\ resetToMarker_seen(p)

\* ------------------------------------------------------- specification
Next ==
    \/ Allocate
    \/ Deallocate
    \/ GetCurrentMarker
    \/ Reset
    \/ ResetToMarker

Spec == Init /\ [][Next]_vars

\* ------------------------------------------------------- a client's holdings
\* the call histories of Spec, which the other specifications leave alone
quiet == UNCHANGED <<prev, fresh, allocs, mark, lifo, pair>>

\* the positions of the holdings that deallocate(p, n) hands back
Matches(p, n) == {i \in 1 .. Len(live) : live[i].p = p /\ live[i].len = align_up(n)}

\* the holdings without the one at position i
Without(held, i) == [j \in 1 .. Len(held) - 1 |-> IF j < i THEN held[j] ELSE held[j + 1]]

\* the client asks for n bytes and keeps what it gets
ClientAllocate ==
    \E n \in Sizes :
        /\ Len(live) < MaxLive
        /\ allocate(n)
        /\ live' = IF allocate_result(n) # nullptr
                    THEN Append(live, [p |-> allocate_result(n), len |-> align_up(n)])
                    ELSE live
        /\ UNCHANGED th
        /\ quiet

\* the client hands back one of its holdings, in any order, with a size
\* that pads to the size it asked for
ClientDeallocate ==
    \E i \in 1 .. Len(live), n \in Sizes :
        /\ i \in Matches(live[i].p, n)
        /\ deallocate(live[i].p, n)
        /\ live' = Without(live, i)
        /\ UNCHANGED th
        /\ quiet

NextClient ==
    \/ ClientAllocate
    \/ ClientDeallocate

SpecClient == Init /\ [][NextClient]_vars

\* ------------------------------------------------------- threads
\* Two threads call allocate on one arena, once each.  The member pointer
\* is read by the test at line 81, read again by r = pointer at line 82,
\* and read and then written by pointer += aligned_n at line 83; nothing
\* orders these accesses between threads, so each is a step of its own.
\* With th.serial the callers serialize their calls themselves.
Threads == {1, 2}

IdleThread == [pc |-> "idle", n |-> 0, r |-> nullptr, tmp |-> nullptr]

InitThreads ==
    /\ N \in 1 .. MaxN
    /\ alignment \in Alignments
    /\ buffer \in Placements(N, alignment)
    /\ pointer = buffer
    /\ op = NoCall
    /\ prev = FALSE
    /\ fresh = TRUE
    /\ allocs = <<>>
    /\ mark = NoMark
    /\ lifo = NoLifo
    /\ pair = NoPair
    /\ live = <<>>
    /\ th \in {[serial |-> b, run |-> [t \in Threads |-> IdleThread]] : b \in BOOLEAN}

\* what a step of a thread leaves alone
still == UNCHANGED <<N, alignment, buffer, op, live>> /\ quiet

\* thread t enters allocate(n); a serialized caller waits for the other call
ThreadCall(t) ==
    \E n \in Sizes :
        /\ th.run[t].pc = "idle"
        /\ th.serial => \A u \in Threads : th.run[u].pc \in {"idle", "done"}
        /\ th' = [th EXCEPT !.run[t].pc = "test", !.run[t].n = n]
        /\ UNCHANGED pointer
        /\ still

\* line 81: the test reads pointer; line 87 when it fails
ThreadTest(t) ==
    /\ th.run[t].pc = "test"
    /\ th' = IF allocate_fits(align_up(th.run[t].n))
             THEN [th EXCEPT !.run[t].pc = "take"]
             ELSE [th EXCEPT !.run[t].pc = "done", !.run[t].r = nullptr]
    /\ UNCHANGED pointer
    /\ still

\* line 82: r = pointer
ThreadTake(t) ==
    /\ th.run[t].pc = "take"
    /\ th' = [th EXCEPT !.run[t].pc = "load", !.run[t].r = pointer]
    /\ UNCHANGED pointer
    /\ still

\* line 83: the read of pointer += aligned_n
ThreadLoad(t) ==
    /\ th.run[t].pc = "load"
    /\ th' = [th EXCEPT !.run[t].pc = "store", !.run[t].tmp = pointer]
    /\ UNCHANGED pointer
    /\ still

bumped_not(from, aligned_n) == from

\* the value pointer += aligned_n writes, given the value it read
bumped(from, aligned_n) == ToWord(from + aligned_n)

\* line 83: the write of pointer += aligned_n; line 84 returns r
ThreadStore(t) ==
    /\ th.run[t].pc = "store"
    /\ pointer' = bumped(th.run[t].tmp, align_up(th.run[t].n))
    /\ th' = [th EXCEPT !.run[t].pc = "done"]
    /\ still

NextThreads ==
    \E t \in Threads :
        \/ ThreadCall(t)
        \/ ThreadTest(t)
        \/ ThreadTake(t)
        \/ ThreadLoad(t)
        \/ ThreadStore(t)

SpecThreads == InitThreads /\ [][NextThreads]_vars

\* the threads whose call returned a pointer
Served == {t \in Threads : th.run[t].pc = "done" /\ th.run[t].r # nullptr}

RECURSIVE SumPadded(_)
\* the sum of the padded sizes handed out to a set of threads
SumPadded(ts) ==
    IF ts = {} THEN 0
    ELSE LET t == CHOOSE u \in ts : TRUE
         IN  align_up(th.run[t].n) + SumPadded(ts \ {t})

\* two callers hold the same non-null pointer
SamePointer ==
    \E t, u \in Served : t # u /\ th.run[t].r = th.run[u].r

\* two callers hold the same non-null pointer to regions that are not empty
SameRegion ==
    \E t, u \in Served :
        /\ t # u
        /\ th.run[t].r = th.run[u].r
        /\ align_up(th.run[t].n) > 0
        /\ align_up(th.run[u].n) > 0

\* ------------------------------------------------------- properties
RECURSIVE SumLen(_)
\* the sum of the padded sizes of a sequence of regions
SumLen(rs) == IF rs = <<>> THEN 0 ELSE rs[1].len + SumLen(Tail(rs))

\* the multiples of the alignment, as integers without wrap-around
Multiples == {k * alignment : k \in 0 .. Word}

Region(a) == {q \in 0 .. Word + Word : a.p <= q /\ q < a.p + a.len}

\* C1: in every reachable state the cursor offset satisfies 0 <= used() <= N
C1_CursorInRange == 0 <= used /\ used <= N

\* a deallocate with a pointer outside the buffer was made on a full arena
C1_Witness == op.name = "deallocate" /\ ~pointer_in_buffer(op.p) /\ used = N

\* C2: in every reachable state used() is a multiple of the arena alignment
C2_CursorAligned == used % alignment = 0

\* resetToMarker was handed a misaligned address of the buffer
C2_Witness ==
    /\ op.name = "resetToMarker"
    /\ pointer_in_buffer(op.p)
    /\ (op.p - buffer) % alignment # 0

\* C3: allocate(n) succeeds iff align_up(n) <= N - used(); on success it
\* returns the cursor held before the call and used() grows by align_up(n)
C3_AllocateContract ==
    op.name = "allocate" =>
        LET fits == align_up(op.n) <= N - op.before
        IN  /\ (op.r # nullptr) <=> fits
            /\ fits => /\ op.r = buffer + op.before
                       /\ used = op.before + align_up(op.n)

\* an allocation that exactly fills what remained of a partly used arena
C3_Witness ==
    /\ op.name = "allocate"
    /\ op.r # nullptr
    /\ op.before > 0
    /\ align_up(op.n) > 0
    /\ align_up(op.n) = N - op.before

\* C4: an allocate whose padded size exceeds the remaining bytes returns the
\* null pointer and leaves the whole arena, the cursor included, as it was
C4_FailedAllocateNoEffect ==
    [][(op'.name = "allocate" /\ align_up(op'.n) > N - used)
          => (op'.r = nullptr /\ arena' = arena)]_vars

\* a request was refused by a partly used arena
C4_Witness ==
    /\ op.name = "allocate"
    /\ op.r = nullptr
    /\ op.before > 0
    /\ used = op.before

\* C5: after allocate calls only, the regions handed out are pairwise
\* disjoint and every one starts at an offset that is a multiple of A
C5_RegionsDisjoint ==
    fresh =>
        /\ \A i, j \in 1 .. Len(allocs) :
              i # j => Region(allocs[i]) \cap Region(allocs[j]) = {}
        /\ \A i \in 1 .. Len(allocs) : (allocs[i].p - buffer) % alignment = 0

\* two non-empty regions have been handed out
C5_Witness ==
    /\ fresh
    /\ Len(allocs) >= 2
    /\ allocs[1].len > 0
    /\ allocs[2].len > 0

\* C6 as stated: a returned pointer p satisfies buffer <= p < buffer + N, is
\* A-aligned, and p + align_up(n) <= buffer + N
C6_ReturnedStrictlyInside ==
    (op.name = "allocate" /\ op.r # nullptr) =>
        /\ buffer <= op.r
        /\ op.r < buffer + N
        /\ op.r % alignment = 0
        /\ op.r + align_up(op.n) <= buffer + N

\* C6 amended: a returned pointer p satisfies buffer <= p <= buffer + N, with
\* p < buffer + N whenever the padded size is not zero, is A-aligned, and
\* p + align_up(n) <= buffer + N
C6_ReturnedInside ==
    (op.name = "allocate" /\ op.r # nullptr) =>
        /\ buffer <= op.r
        /\ op.r <= buffer + N
        /\ align_up(op.n) # 0 => op.r < buffer + N
        /\ op.r % alignment = 0
        /\ op.r + align_up(op.n) <= buffer + N

\* a request of padded size zero was served by a full arena
C6_Witness ==
    /\ op.name = "allocate"
    /\ op.r = buffer + N
    /\ align_up(op.n) = 0

\* C7 as stated: after reset() used() is 0 and the next allocate(n) with
\* any n <= N succeeds
C7_AfterResetAnyFits ==
    /\ op.name = "reset" => used = 0
    /\ (prev /\ op.name = "allocate" /\ op.n <= N) => op.r # nullptr

\* C7 amended: after reset() used() is 0 and the next allocate(n) succeeds
\* iff align_up(n) <= N, which covers every n <= N when N is a multiple of A
C7_AfterResetPaddedFits ==
    /\ op.name = "reset" => used = 0
    /\ (prev /\ op.name = "allocate") =>
          /\ (op.r # nullptr) <=> (align_up(op.n) <= N)
          /\ (N % alignment = 0 /\ op.n <= N) => op.r # nullptr

\* the whole capacity was requested right after a reset of a used arena
C7_Witness ==
    /\ prev
    /\ op.name = "allocate"
    /\ op.n = N
    /\ op.r # nullptr
    /\ N % alignment = 0

\* C8: a marker taken and followed by allocate calls only is restored by
\* resetToMarker: used() is again what it was when the marker was taken
C8_MarkerRestores == mark.stage = 2 => used = mark.used

\* the cursor had advanced past the marker when it was restored
C8_Witness ==
    /\ mark.stage = 2
    /\ op.name = "resetToMarker"
    /\ op.before > mark.used

\* C9: p = allocate(n) then deallocate(p, n) returns used() to its value
\* before the allocate, and the next allocate(n) returns p again
C9_LifoRoundTrip ==
    /\ lifo.stage >= 2 => lifo.back = lifo.used
    /\ lifo.stage = 3 => (op.name = "allocate" /\ op.r = lifo.p)

\* a round trip of a non-empty region was completed
C9_Witness ==
    /\ lifo.stage = 3
    /\ lifo.p # nullptr
    /\ align_up(lifo.n) > 0

\* C10 as stated: after successful p1 = allocate(n1) and p2 = allocate(n2),
\* deallocate(p1, n1) leaves used() unchanged
C10_NonLifoFreeNoEffect == pair.stage = 3 => used = op.before

\* C10 amended: deallocate(p1, n1) leaves used() unchanged when the padded
\* size of n2 is not zero; when it is zero p1 is still the top and the
\* cursor is rewound to p1
C10_NonLifoFreeNonEmpty ==
    pair.stage = 3 =>
        /\ align_up(pair.n2) # 0 => used = op.before
        /\ align_up(pair.n2) = 0 => pointer = pair.p1

\* the first of two non-empty regions was handed back
C10_Witness ==
    /\ pair.stage = 3
    /\ align_up(pair.n1) > 0
    /\ align_up(pair.n2) > 0

\* C12: deallocate(q, n) with q outside [buffer, buffer + N], the null
\* pointer included, leaves used() unchanged
C12_ForeignPointerNoEffect ==
    (op.name = "deallocate" /\ (op.p < buffer \/ op.p > buffer + N))
        => used = op.before

\* a pointer just outside the buffer came with a size that would have
\* matched the cursor had the pointer been accepted
C12_Witness ==
    /\ op.name = "deallocate"
    /\ op.p # nullptr
    /\ (op.p < buffer \/ op.p > buffer + N)
    /\ ToWord(op.p + align_up(op.n)) = pointer

\* C13: resetToMarker(m) with m outside [buffer, buffer + N] or not aligned
\* to A writes the diagnostic and leaves the cursor unchanged
C13_InvalidMarkerRejected ==
    (op.name = "resetToMarker"
       /\ (op.p < buffer \/ op.p > buffer + N \/ op.p % alignment # 0))
        => (op.diag /\ used = op.before)

\* a misaligned address of the buffer, not the cursor, was handed in
C13_Witness ==
    /\ op.name = "resetToMarker"
    /\ buffer <= op.p
    /\ op.p <= buffer + N
    /\ op.p % alignment # 0
    /\ op.p # pointer
    /\ op.diag

\* C14: resetToMarker writes no diagnostic when the marker is inside the
\* buffer range and A-aligned
C14_NoDiagnosticOnSuccess ==
    (op.name = "resetToMarker"
       /\ buffer <= op.p /\ op.p <= buffer + N /\ op.p % alignment = 0)
        => ~op.diag

\* C15 as stated: used() after resetToMarker(m) is at most used() before
C15_RewindOnlyLowers == op.name = "resetToMarker" => used <= op.before

\* C15 amended: resetToMarker(m) raises used() exactly when m is an aligned
\* address of the buffer range above the cursor, and then used() is
\* m - buffer; for every other m used() does not grow
C15_RewindRaisesOnlyToValidMarker ==
    op.name = "resetToMarker" =>
        LET above == /\ buffer + op.before < op.p
                     /\ op.p <= buffer + N
                     /\ op.p % alignment = 0
        IN  /\ (used > op.before) <=> above
            /\ above => used = op.p - buffer

\* a marker above the cursor was handed in after a reset
C15_Witness ==
    /\ op.name = "resetToMarker"
    /\ prev
    /\ op.before = 0
    /\ used > 0

\* C16: after allocate calls only, used() is the sum of align_up(s) over
\* the successful ones
C16_UsedIsSumOfPadded == fresh => used = SumLen(allocs)

\* a refused request followed two served ones
C16_Witness ==
    /\ fresh
    /\ Len(allocs) >= 2
    /\ allocs[1].len > 0
    /\ op.name = "allocate"
    /\ op.r = nullptr

\* C17: allocate(0) succeeds in every state, returns the cursor as a
\* non-null pointer and leaves used() unchanged
C17_ZeroSizeSucceeds ==
    (op.name = "allocate" /\ op.n = 0) =>
        /\ op.r # nullptr
        /\ op.r = buffer + op.before
        /\ used = op.before

\* a zero-size request was made on a full arena
C17_Witness ==
    /\ op.name = "allocate"
    /\ op.n = 0
    /\ op.before = N
    /\ op.r = buffer + N

\* C18: for every n of the size type align_up(n) is the smallest multiple
\* of A that is >= n, a non-zero request never pads to 0, and a full arena
\* refuses every non-zero request
C18_AlignUpIsCeiling ==
    op.name = "allocate" =>
        /\ align_up(op.n) \in Multiples
        /\ align_up(op.n) >= op.n
        /\ \A m \in Multiples : m >= op.n => align_up(op.n) <= m
        /\ op.n # 0 => align_up(op.n) # 0
        /\ (op.before = N /\ op.n # 0) => op.r = nullptr

C19_HeldRegionsIntact ==
    /\ \A i \in 1 .. Len(live) :
          live[i].len > 0 => (buffer <= live[i].p /\ live[i].p + live[i].len <= pointer)
    /\ \A i, j \in 1 .. Len(live) :
          i # j => Region(live[i]) \cap Region(live[j]) = {}

\* a region between two held ones was handed back out of order
C19_Witness ==
    /\ op.name = "deallocate"
    /\ align_up(op.n) > 0
    /\ used = op.before
    /\ Len(live) = 2
    /\ live[1].len > 0
    /\ live[2].len > 0
    /\ live[1].p + live[1].len = op.p
    /\ op.p + align_up(op.n) = live[2].p

\* C20 as stated, second half: when the callers serialize their calls no
\* state is reachable where both hold the same non-null pointer or where
\* used() is smaller than the sum of the padded sizes handed out
C20_SerializedNeverShares ==
    th.serial => (~SamePointer /\ used >= SumPadded(Served))

\* C20 amended: when the callers serialize their calls, used() is the sum
\* of the padded sizes handed out and two callers hold the same non-null
\* pointer only when one of their requests pads to zero bytes
C20_SerializedNeverOverlaps ==
    th.serial =>
        /\ ~SameRegion
        /\ (\A t \in Threads : th.run[t].pc \in {"idle", "done"})
              => used = SumPadded(Served)

\* C20, first half: without serialization both callers were handed the same
\* non-empty region and used() accounts for one of them only
C20_Witness ==
    /\ ~th.serial
    /\ Served = Threads
    /\ SameRegion
    /\ used < SumPadded(Served)

====
